---- MODULE Spec2Model ----
(***************************************************************************)
(* The FlagPole documentation site: the site configuration modules, the    *)
(* sidebar definitions and the markdown documents of the repository, as    *)
(* they are read by one run of the site build, together with the three     *)
(* callbacks the configuration carries (customPlugin, configureWebpack,    *)
(* blog.readingTime).                                                      *)
(*                                                                         *)
(* Paths and ids are sequences of segments: "/docs/client/react" is        *)
(* <<"docs", "client", "react">> and "/" is << >>.                         *)
(***************************************************************************)
EXTENDS Integers, Sequences, FiniteSets, TLC

VARIABLES
  pc,              \* stage of the build run
  year,            \* calendar year of the build clock (new Date().getFullYear())
  siteDir,         \* directory the site is installed in (require.resolve)
  config,          \* the value of the configuration module, as evaluated
  prevConfig,      \* the value of the preceding evaluation
  configAtLoad,    \* the value config had when it was loaded
  sidebars,        \* the value of the sidebars module
  sidebarsAtLoad,  \* the value sidebars had when it was loaded
  docsRead,        \* number of document files parsed so far
  metadata,        \* what the parse of each document file yielded
  plugin,          \* what the latest customPlugin() call returned
  webpackConfig,   \* what the latest configureWebpack() call returned
  prevWebpackConfig, \* what the call before it returned
  minutes,         \* what the latest readingTime call returned
  calls,           \* callback calls made in this run
  request,         \* module request under resolution
  origin,          \* the request as it was made
  rewrites,        \* alias rewrites applied to the request
  \* shared-flags.ts (the micro-frontend example of the React guide)
  instance,        \* SharedFeatureFlags.instance: 0, or the object it holds
  objects,         \* this.flags of each SharedFeatureFlags object constructed
  sharedFlags,     \* const sharedFlags of each micro-frontend: 0, or an object
  consumers,       \* the useMicroFrontendFlag components
  dispatched,      \* "flagsUpdated" events dispatched on window
  detail,          \* detail of the latest event
  setCalls,        \* setFlags calls made
  lastFlags,       \* argument of the latest setFlags call
  \* the route guards and wrappers of the React, Vue and Angular guides
  isLoading,       \* useFeatureFlags().isLoading
  isEnabled,       \* what the SDK reports for the flag asked about
  user,            \* what useAuth() / auth.getCurrentUser() returns
  element,         \* what the latest component render returned
  navigation,      \* what the latest featureFlagGuard call passed to next
  activation,      \* the canActivate call: its position, locals and result
  \* SecureFlagpoleClient
  fallbackClient,  \* this.fallbackClient: "null" or "client"
  rotation,        \* the isFeatureEnabled call: position, settlements, result
  warned,          \* console.warn calls made
  \* LiveConfigPanel
  mounted,         \* "no", "yes" or "gone"
  flagsVersion,    \* useFeatureFlags().flags: the number of the value it holds
  effectPending,   \* the [flags] effect is scheduled and has not run
  showUpdateNotification,
  timers,          \* the pending setTimeout timers
  timer,           \* const timer of the latest effect run
  timersSet,       \* setTimeout calls made
  \* ABTestComponent
  experimentFlag,  \* flags["checkoutExperiment"]
  checkout,        \* what the latest render of ABTestComponent returned
  effectDeps,      \* the dependencies of the latest run of its effect
  exposureDue,     \* its effect is scheduled and has not run
  exposures,       \* analytics.track("experiment_exposure", ...) calls made
  lastExposure     \* the flag as the latest tracked render saw it

siteVars == <<pc, year, siteDir, config, prevConfig, configAtLoad, sidebars,
              sidebarsAtLoad, docsRead, metadata, plugin, webpackConfig,
              prevWebpackConfig, minutes, calls, request, origin, rewrites>>

sharedVars == <<instance, objects, sharedFlags, consumers, dispatched, detail,
                setCalls, lastFlags>>

uiVars == <<isLoading, isEnabled, user, element, navigation, activation>>

rotationVars == <<fallbackClient, rotation, warned>>

panelVars == <<mounted, flagsVersion, effectPending, showUpdateNotification, timers,
               timer, timersSet>>

abVars == <<experimentFlag, checkout, effectDeps, exposureDue, exposures,
           lastExposure>>

vars == <<siteVars, sharedVars, uiVars, rotationVars, panelVars, abVars>>

\* What the build run, the shared flags, the guards, the rotating client and
\* the panel each leave alone.
NotSite == <<sharedVars, uiVars, rotationVars, panelVars, abVars>>
NotShared == <<siteVars, uiVars, rotationVars, panelVars, abVars>>
NotUI == <<siteVars, sharedVars, rotationVars, panelVars, abVars>>
NotRotation == <<siteVars, sharedVars, uiVars, panelVars, abVars>>
NotPanel == <<siteVars, sharedVars, uiVars, rotationVars, abVars>>
NotAB == <<siteVars, sharedVars, uiVars, rotationVars, panelVars>>

(***************************************************************************)
(* Bounds of the model.                                                    *)
(***************************************************************************)
FirstYear == 2025
MaxYears == 1
MaxCalls == 3
MaxRewrites == 3
MaxSetFlags == 2
MaxRotationCalls == 3
MaxUpdates == 5
MaxExposures == 2

Years == FirstYear .. (FirstYear + MaxYears)
SiteDirs == {"/home/dev/flagpole-docs", "/ci/flagpole-docs"}

(***************************************************************************)
(* The webpack alias rule of customPlugin().configureWebpack().            *)
(***************************************************************************)
\* The rule with the second key pointing at the first.
alias_chained ==
  [k \in {"@site/docs/overview.md", "@site/docs/docs/overview.md"} |->
     IF k = "@site/docs/docs/overview.md" THEN "@site/docs/overview.md"
     ELSE "@site/docs/index.md"]

alias ==
  [k \in {"@site/docs/overview.md", "@site/docs/docs/overview.md"} |->
     "@site/docs/index.md"]

NoValue == [name |-> "none"]

\* function customPlugin() { return { name, configureWebpack } }
customPlugin == [name |-> "custom-plugin", configureWebpack |-> TRUE]

\* configureWebpack() { return { resolve: { alias: {...} } } }
configureWebpack == [name |-> "webpack", resolve |-> [alias |-> alias]]

\* options: { wordsPerMinute: 300 }
wordsPerMinute == 300

\* The reading-time estimate of the blog plugin: words over words per minute,
\* rounded up.
defaultReadingTime(content, options) ==
  (content + options.wordsPerMinute - 1) \div options.wordsPerMinute

\* readingTime: ({content, frontMatter, defaultReadingTime}) =>
\*   defaultReadingTime({content, options: {wordsPerMinute: 300}})
readingTime(content) ==
  defaultReadingTime(content, [wordsPerMinute |-> wordsPerMinute])

\* Word counts of the posts the callback is called with.
Contents == {0, 300, 301}

(***************************************************************************)
(* The configuration modules.  Each is an expression over the build clock  *)
(* (footer.copyright) and the install directory (require.resolve).         *)
(***************************************************************************)
To(label, path) == [label |-> label, kind |-> "to", to |-> path, href |-> ""]
Href(label, url) == [label |-> label, kind |-> "href", to |-> << >>, href |-> url]
Item(type) == [label |-> "", kind |-> type, to |-> << >>, href |-> ""]

\* require.resolve("@easyops-cn/docusaurus-search-local")
requireResolve(dir, package) == <<dir, "node_modules", package>>

\* `${new Date().getFullYear()} FlagPole LLC.`
copyright(yr) == <<yr, " FlagPole LLC.">>

\* The url read from the environment of the build instead.
url_of_environment ==
  IF siteDir = "/ci/flagpole-docs" THEN "https://staging.useflagpole.dev"
  ELSE "https://app.useflagpole.dev"

\* url: "https://app.useflagpole.dev"
url == "https://app.useflagpole.dev"

\* The search plugin of docusaurus.config.ts indexing the blog.
indexBlog_on == "true"

\* indexBlog: false, of docusaurus.config.ts
indexBlog == "false"

\* src/docusaurus.config.ts
docusaurus_config(yr, dir) ==
  [ file |-> "docusaurus.config.ts",
    title |-> "FlagPole - Feature Flags Documentation",
    url |-> url,
    baseUrl |-> << >>,
    onBrokenLinks |-> "throw",
    onBrokenMarkdownLinks |-> "warn",
    docs |-> [sidebarPath |-> "./sidebars.ts", routeBasePath |-> << >>],
    blog |-> [declared |-> "false", readingTime |-> FALSE],
    plugins |-> <<"customPlugin",
                  requireResolve(dir, "@easyops-cn/docusaurus-search-local")>>,
    searchOptions |->
      { <<"docsRouteBasePath", "/">>, <<"blogRouteBasePath", "false">>,
        <<"language", "en">>, <<"hashed", "true">>, <<"indexDocs", "true">>,
        <<"indexBlog", indexBlog>>, <<"indexPages", "false">>,
        <<"removeDefaultStopWordFilter", "true">>,
        <<"highlightSearchTermsOnTargetPage", "true">>,
        <<"searchResultContextMaxLength", "50">>,
        <<"explicitSearchResultPath", "true">>,
        <<"searchBarShortcut", "true">>, <<"searchBarShortcutHint", "true">> },
    navbar |-> << Item("search"),
                  Href("GitHub", "https://github.com/flagpole-corp/flagpole-docs") >>,
    footer |->
      << [title |-> "Docs",
          items |-> << To("Getting Started", <<"getting-started">>),
                       To("Node.js SDK", <<"server", "nodejs">>),
                       To("React SDK", <<"client", "react">>) >>],
         [title |-> "Community",
          items |-> << Href("Discord", "https://discord.gg/flagpole"),
                       Href("GitHub", "https://github.com/flagpole-corp") >>],
         [title |-> "More",
          items |-> << Href("Website", "https://useflagpole.dev"),
                       Href("GitHub", "https://github.com/flagpole-corp/flagpole-docs") >>] >>,
    copyright |-> copyright(yr) ]

\* src/unnamed/part_000
part_000_config(yr, dir) ==
  [ file |-> "part_000",
    title |-> "FlagPole - Feature Flags Documentation",
    url |-> url,
    baseUrl |-> << >>,
    onBrokenLinks |-> "absent",
    onBrokenMarkdownLinks |-> "absent",
    docs |-> [sidebarPath |-> "./sidebars.ts", routeBasePath |-> << >>],
    blog |-> [declared |-> "absent", readingTime |-> FALSE],
    plugins |-> <<"customPlugin",
                  requireResolve(dir, "@easyops-cn/docusaurus-search-local")>>,
    searchOptions |-> { <<"hashed", "true">>, <<"language", "en">> },
    navbar |-> << Href("GitHub", "https://github.com/flagpole-corp/flagpole-docs") >>,
    footer |->
      << [title |-> "Docs",
          items |-> << To("Tutorial", << >>) >>],
         [title |-> "Community",
          items |-> << >>],
         [title |-> "More",
          items |-> << To("Blog", <<"blog">>),
                       Href("GitHub", "https://github.com/flagpole-corp/flagpole-docs") >>] >>,
    copyright |-> copyright(yr) ]

\* src/unnamed/part_001
part_001_config(yr, dir) ==
  [ file |-> "part_001",
    title |-> "FlagPole - Feature Flags Documentation",
    url |-> url,
    baseUrl |-> << >>,
    onBrokenLinks |-> "warn",
    onBrokenMarkdownLinks |-> "warn",
    docs |-> [sidebarPath |-> "./sidebars.ts", routeBasePath |-> << >>],
    blog |-> [declared |-> "object", readingTime |-> TRUE],
    plugins |-> <<"customPlugin",
                  requireResolve(dir, "@easyops-cn/docusaurus-search-local")>>,
    searchOptions |->
      { <<"hashed", "true">>, <<"language", "en">>,
        <<"docsRouteBasePath", "/docs">>, <<"blogRouteBasePath", "/blog">>,
        <<"indexDocs", "true">>, <<"indexBlog", "true">>,
        <<"indexPages", "false">>,
        <<"removeDefaultStopWordFilter", "true">>,
        <<"highlightSearchTermsOnTargetPage", "true">>,
        <<"searchResultContextMaxLength", "50">>,
        <<"explicitSearchResultPath", "true">>,
        <<"searchBarShortcut", "true">>, <<"searchBarShortcutHint", "true">> },
    navbar |-> << Item("docSidebar"),
                  To("Blog", <<"blog">>),
                  Item("search"),
                  Href("GitHub", "https://github.com/flagpole-corp/flagpole-docs") >>,
    footer |->
      << [title |-> "Docs",
          items |-> << To("Getting Started", <<"docs", "getting-started">>),
                       To("Node.js SDK", <<"docs", "server", "nodejs">>),
                       To("React SDK", <<"docs", "client", "react">>) >>],
         [title |-> "Community",
          items |-> << Href("Discord", "https://discord.gg/flagpole"),
                       Href("GitHub", "https://github.com/flagpole-corp") >>],
         [title |-> "More",
          items |-> << To("Blog", <<"blog">>),
                       Href("Website", "https://useflagpole.dev"),
                       Href("GitHub", "https://github.com/flagpole-corp/flagpole-docs") >>] >>,
    copyright |-> copyright(yr) ]

ConfigFiles == {"docusaurus.config.ts", "part_000", "part_001"}

\* The value of configuration module f, evaluated in year yr in directory dir.
EvalConfig(f, yr, dir) ==
  CASE f = "docusaurus.config.ts" -> docusaurus_config(yr, dir)
    [] f = "part_000" -> part_000_config(yr, dir)
    [] f = "part_001" -> part_001_config(yr, dir)

(***************************************************************************)
(* The sidebar definitions.  A bare string in the source is an entry of    *)
(* type "string"; the other entries carry their type.                      *)
(***************************************************************************)
Str(id) == [type |-> "string", id |-> id, label |-> "", items |-> << >>]
Doc(id) == [type |-> "doc", id |-> id, label |-> "", items |-> << >>]
Category(label, items) ==
  [type |-> "category", id |-> << >>, label |-> label, items |-> items]

\* The sidebar generated from the docs directory instead of declared.
sidebars_autogenerated ==
  [ file |-> "part_002",
    docs |-> << [type |-> "autogenerated", id |-> << >>, label |-> "",
                 items |-> << >>] >> ]

\* src/unnamed/part_002, lines 5-19
sidebars_part_002 ==
  [ file |-> "part_002",
    docs |-> << Str(<<"overview">>),
                Category("Client SDKs",
                  << Str(<<"client", "react">>), Str(<<"client", "angular">>) >>),
                Category("Server SDKs", << Str(<<"server", "nodejs">>) >>) >> ]

\* src/unnamed/part_003, lines 5-32
sidebars_part_003_a ==
  [ file |-> "part_003:5",
    docs |-> << Doc(<<"overview">>),
                Doc(<<"getting-started">>),
                Category("Client SDKs",
                  << Str(<<"client", "react">>), Str(<<"client", "angular">>),
                     Str(<<"client", "vue">>), Str(<<"client", "react-native">>),
                     Str(<<"client", "flutter">>) >>),
                Category("Server SDKs",
                  << Str(<<"server", "nodejs">>), Str(<<"server", "python">>) >>) >> ]

\* src/unnamed/part_003, lines 38-65
sidebars_part_003_b ==
  [ file |-> "part_003:38",
    docs |-> << Doc(<<"overview">>),
                Doc(<<"getting-started">>),
                Category("Client SDKs",
                  << Str(<<"client", "react">>), Str(<<"client", "angular">>),
                     Str(<<"client", "vue">>), Str(<<"client", "react-native">>),
                     Str(<<"client", "flutter">>) >>),
                Category("Server SDKs",
                  << Str(<<"server", "nodejs">>), Str(<<"server", "python">>) >>) >> ]

\* src/unnamed/part_003, lines 73-94
sidebars_part_003_c ==
  [ file |-> "part_003:73",
    docs |-> << Doc(<<"overview">>),
                Doc(<<"getting-started">>),
                Category("Client SDKs",
                  << Str(<<"client", "react">>), Str(<<"client", "angular">>) >>),
                Category("Server SDKs", << Str(<<"server", "nodejs">>) >>) >> ]

SidebarFiles == {"part_002", "part_003:5", "part_003:38", "part_003:73"}

EvalSidebars(f) ==
  CASE f = "part_002" -> sidebars_part_002
    [] f = "part_003:5" -> sidebars_part_003_a
    [] f = "part_003:38" -> sidebars_part_003_b
    [] f = "part_003:73" -> sidebars_part_003_c

(***************************************************************************)
(* The documents.  A document file is the sequence of its structural       *)
(* lines: <<"---", "">> is a line that holds only three dashes, <<k, v>>   *)
(* is a "k: v" line that follows such a line or another "k: v" line, and   *)
(* <<"text", "">> stands for a run of other lines.  links are the relative *)
(* links of the body.  dir and name are the file's directory under docs/   *)
(* and its name without extension; named is FALSE where they are unknown   *)
(* and nothing in the repository places the file.                          *)
(***************************************************************************)
Fence == <<"---", "">>
Text == <<"text", "">>

File(file, named, dir, name, lines, links) ==
  [file |-> file, named |-> named, dir |-> dir, name |-> name,
   lines |-> lines, links |-> links]

\* src/docs/client/angular.md
angular_md ==
  File("docs/client/angular.md", TRUE, <<"client">>, "angular",
       << Fence, <<"id", "angular">>, <<"title", "Angular SDK">>, Fence, Text >>,
       << >>)

\* src/docs/client/react-native.md
react_native_md ==
  File("docs/client/react-native.md", TRUE, <<"client">>, "react-native",
       << Text, Fence, <<"slug", "/">>, <<"title", "Overview">>,
          <<"sidebar_position", "1">>, Fence, Text >>,
       << <<"CONTRIBUTING.md">> >>)

\* src/docs/client/react.md
react_md ==
  File("docs/client/react.md", TRUE, <<"client">>, "react",
       << Fence, <<"id", "react">>, <<"title", "React">>, Fence, Text >>,
       << >>)

\* src/docs/client/vue.md
vue_md ==
  File("docs/client/vue.md", TRUE, <<"client">>, "vue",
       << Fence, <<"id", "vue">>, <<"title", "Vue">>, Fence, Text >>,
       << >>)

\* src/docs/server/nodejs.md
nodejs_md ==
  File("docs/server/nodejs.md", TRUE, <<"server">>, "nodejs",
       << Fence, <<"id", "nodejs">>, <<"title", "Node.js SDK">>, Fence, Text >>,
       << >>)

\* src/unnamed/part_004
part_004 ==
  File("part_004", FALSE, << >>, "",
       << Fence, <<"id", "react">>, <<"title", "React">>, Fence, Text,
          Fence, Text >>,
       << >>)

\* src/unnamed/part_005
part_005 ==
  File("part_005", FALSE, << >>, "",
       << Fence, <<"id", "react">>, <<"title", "React">>, Fence, Text >>,
       << >>)

\* src/unnamed/part_006
part_006 ==
  File("part_006", FALSE, << >>, "",
       << Fence, <<"id", "angular">>, <<"title", "Angular">>, Fence, Text >>,
       << >>)

\* src/unnamed/part_007
part_007 ==
  File("part_007", FALSE, << >>, "",
       << Fence, <<"id", "angular">>, <<"title", "Angular SDK">>, Fence, Text >>,
       << >>)

\* src/unnamed/part_008.  The file has no id; the alias rule of the
\* configuration names the overview document docs/overview.md.
part_008 ==
  File("part_008", TRUE, << >>, "overview",
       << Fence, <<"slug", "/">>, <<"title", "Overview">>,
          <<"sidebar_position", "1">>, Fence, Text >>,
       << >>)

\* src/unnamed/part_009
part_009 ==
  File("part_009", FALSE, << >>, "",
       << Fence, <<"id", "nodejs">>, <<"title", "Node.js SDK">>, Fence, Text,
          Fence, Text >>,
       << >>)

\* src/unnamed/part_010.  The sidebars and the footer of the configuration
\* place the document at the top level of docs/.
part_010 ==
  File("part_010", TRUE, << >>, "getting-started",
       << Fence, <<"id", "getting-started">>, <<"title", "Getting Started">>,
          <<"sidebar_position", "2">>, Fence, Text,
          Fence, <<"id", "getting-started">>, <<"title", "Getting Started">>,
          <<"sidebar_position", "2">>, Fence, Text,
          Fence, <<"id", "getting-started">>, <<"title", "Getting Started">>,
          <<"sidebar_position", "2">>, Fence, Text >>,
       << <<"client", "react">>, <<"client", "angular">>,
          <<"client", "react-native">>, <<"client", "flutter">>,
          <<"server", "nodejs">>, <<"server", "python">> >>)

\* The document files of the docs plugin, in the order they are read.
DocFiles ==
  << angular_md, react_native_md, react_md, vue_md, nodejs_md,
     part_004, part_005, part_006, part_007, part_008, part_009, part_010 >>

(***************************************************************************)
(* Reading a document file: the front-matter block is what lies between a  *)
(* first line of three dashes and the next such line; the rest is the      *)
(* body.                                                                   *)
(***************************************************************************)
IsKey(line) == line[1] \notin {"---", "text"}

\* Index of the line that closes the block opened on line 1, 0 if none.
CloseOf(lines) ==
  IF \E j \in 2..Len(lines) : lines[j] = Fence
    THEN CHOOSE j \in 2..Len(lines) :
           /\ lines[j] = Fence
           /\ \A k \in 2..(j - 1) : lines[k] # Fence
    ELSE 0

matter(lines) ==
  IF Len(lines) >= 1 /\ lines[1] = Fence /\ CloseOf(lines) # 0
    THEN [isEmpty |-> FALSE,
          data |-> {lines[k] : k \in {i \in 2..(CloseOf(lines) - 1) : IsKey(lines[i])}},
          content |-> SubSeq(lines, CloseOf(lines) + 1, Len(lines))]
    ELSE [isEmpty |-> TRUE, data |-> {}, content |-> lines]

Keys(data) == {kv[1] : kv \in data}
Value(data, key) == (CHOOSE kv \in data : kv[1] = key)[2]

\* A front-matter block inside a body: two lines of three dashes with only
\* "k: v" lines, and at least one, between them.
HasBlock(content) ==
  \E i, j \in 1..Len(content) :
    /\ i + 1 < j
    /\ content[i] = Fence /\ content[j] = Fence
    /\ \A k \in (i + 1)..(j - 1) : IsKey(content[k])

\* "/" is the root; any other slug is one segment.
SlugPath(slug) == IF slug = "/" THEN << >> ELSE <<slug>>

\* What the docs plugin keeps of a document file: its id (the front-matter
\* id, else the file name, under the file's directory) and its permalink
\* below the route base path (the slug, else the id).
ParseDocument(f) ==
  LET m == matter(f.lines)
      unversionedId == IF "id" \in Keys(m.data) THEN Value(m.data, "id") ELSE f.name
  IN [file |-> f.file,
      named |-> f.named,
      frontMatter |-> ~m.isEmpty,
      keys |-> Keys(m.data),
      block |-> HasBlock(m.content),
      id |-> f.dir \o <<unversionedId>>,
      permalink |-> IF "slug" \in Keys(m.data)
                      THEN SlugPath(Value(m.data, "slug"))
                      ELSE f.dir \o <<unversionedId>>,
      links |-> f.links]

Last(path) == path[Len(path)]
Front(path) == SubSeq(path, 1, Len(path) - 1)
IsPrefix(p, path) == Len(p) <= Len(path) /\ SubSeq(path, 1, Len(p)) = p

\* Document m has the id.  A file whose directory is unknown has any id
\* that ends in its own.
HasId(m, id) ==
  IF m.named THEN m.id = id
  ELSE id # << >> /\ Last(id) = Last(m.id)

(***************************************************************************)
(* shared-flags.ts at module load: no SharedFeatureFlags object, no         *)
(* micro-frontend has called getInstance(), no component is mounted.        *)
(***************************************************************************)
FlagNames == {"newCheckout", "betaAccess"}
MicroFrontends == {1, 2}

\* The values of a Record<string, boolean> over the flag names.
FlagRecords == UNION {[names -> BOOLEAN] : names \in SUBSET FlagNames}

\* private flags: Record<string, boolean> = {}
NoFlags == [n \in {} |-> FALSE]

Unmounted == [phase |-> "unmounted", flagName |-> "", isEnabled |-> FALSE]

SharedInit ==
  /\ instance = 0
  /\ objects = << >>
  /\ sharedFlags = [m \in MicroFrontends |-> 0]
  /\ consumers = [m \in MicroFrontends |-> Unmounted]
  /\ dispatched = 0
  /\ detail = NoFlags
  /\ setCalls = 0
  /\ lastFlags = NoFlags

(***************************************************************************)
(* The guards and wrappers of the client guides.  JavaScript values are    *)
(* written by name: "true", "false", "undefined", "null"; an element or a  *)
(* call to next is a sequence, its kind first.                             *)
(***************************************************************************)
FlagValues == {"true", "false", "undefined"}

\* What if (v), !v, v && w and v ? a : b take v to be.
Truthy(v) == v \notin {"false", "undefined", "null", ""}

NoUser == [exists |-> FALSE, isAdmin |-> "undefined", roles |-> {}]
Users ==
  {NoUser} \cup
  {[exists |-> TRUE, isAdmin |-> a, roles |-> r] :
     a \in {"true", "false"}, r \in {{}, {"admin"}}}

NoElement == [component |-> "none"]
NoNavigation == [next |-> << >>]
NoActivation == [pc |-> "idle"]

UIInit ==
  /\ isLoading = TRUE
  /\ isEnabled = "undefined"
  /\ user = NoUser
  /\ element = NoElement
  /\ navigation = NoNavigation
  /\ activation = NoActivation

(***************************************************************************)
(* SecureFlagpoleClient and LiveConfigPanel.                               *)
(***************************************************************************)
NoCall == [pc |-> "idle"]

RotationInit ==
  /\ fallbackClient = "unconstructed"
  /\ rotation = NoCall
  /\ warned = 0

PanelInit ==
  /\ mounted = "no"
  /\ flagsVersion = 0
  /\ effectPending = FALSE
  /\ showUpdateNotification = FALSE
  /\ timers = {}
  /\ timer = 0
  /\ timersSet = 0

(***************************************************************************)
(* ABTestComponent: the flag record of the experiment, as the provider     *)
(* holds it.                                                               *)
(***************************************************************************)
\* flags["checkoutExperiment"] of a provider that has no such flag.
NoExperiment ==
  [exists |-> FALSE, isEnabled |-> "undefined", variant |-> "undefined",
   percentage |-> 0]

\* The flag records: conditions.variant is missing, a variant of the
\* experiment, "control", or a variant the component does not know.
ExperimentFlags ==
  {NoExperiment} \cup
  [exists : {TRUE}, isEnabled : {"true", "false"},
   variant : {"undefined", "control", "variantA", "variantB", "variantC"},
   percentage : {0, 50}]

NoCheckout == [source |-> "none"]
NoDeps == <<"none">>

ABInit ==
  /\ experimentFlag = NoExperiment
  /\ checkout = NoCheckout
  /\ effectDeps = NoDeps
  /\ exposureDue = FALSE
  /\ exposures = 0
  /\ lastExposure = NoExperiment

(***************************************************************************)
(* The build run.                                                          *)
(***************************************************************************)
Requests ==
  {"@site/docs/overview.md", "@site/docs/docs/overview.md",
   "@site/docs/index.md", "@site/docs/getting-started.md"}

Init ==
  /\ pc = "idle"
  /\ year = FirstYear
  /\ siteDir \in SiteDirs
  /\ config = NoValue
  /\ prevConfig = NoValue
  /\ configAtLoad = NoValue
  /\ sidebars = NoValue
  /\ sidebarsAtLoad = NoValue
  /\ docsRead = 0
  /\ metadata = {}
  /\ plugin = NoValue
  /\ webpackConfig = NoValue
  /\ prevWebpackConfig = NoValue
  /\ minutes = -1
  /\ calls = 0
  /\ request = ""
  /\ origin = ""
  /\ rewrites = 0
  /\ SharedInit
  /\ UIInit
  /\ RotationInit
  /\ PanelInit
  /\ ABInit

\* The clock passes a new year.
Tick ==
  /\ year < FirstYear + MaxYears
  /\ year' = year + 1
  /\ UNCHANGED <<pc, siteDir, config, prevConfig, configAtLoad, sidebars,
                 sidebarsAtLoad, docsRead, metadata, plugin, webpackConfig,
                 prevWebpackConfig, minutes, calls, request, origin, rewrites>>
  /\ UNCHANGED NotSite

\* The site is checked out and installed in another directory.
MoveSite ==
  /\ pc = "idle"
  /\ siteDir' \in SiteDirs \ {siteDir}
  /\ UNCHANGED <<pc, year, config, prevConfig, configAtLoad, sidebars,
                 sidebarsAtLoad, docsRead, metadata, plugin, webpackConfig,
                 prevWebpackConfig, minutes, calls, request, origin, rewrites>>
  /\ UNCHANGED NotSite

\* The configuration module f is evaluated: const config = {...}.
LoadConfig(f) ==
  /\ pc = "idle"
  /\ prevConfig' = config
  /\ config' = EvalConfig(f, year, siteDir)
  /\ configAtLoad' = config'
  /\ pc' = "config"
  /\ UNCHANGED <<year, siteDir, sidebars, sidebarsAtLoad, docsRead, metadata,
                 plugin, webpackConfig, prevWebpackConfig, minutes, calls,
                 request, origin, rewrites>>
  /\ UNCHANGED NotSite

\* The sidebars module f is evaluated: const sidebars = {...}.
LoadSidebars(f) ==
  /\ pc = "config"
  /\ sidebars' = EvalSidebars(f)
  /\ sidebarsAtLoad' = sidebars'
  /\ pc' = "docs"
  /\ UNCHANGED <<year, siteDir, config, prevConfig, configAtLoad, docsRead,
                 metadata, plugin, webpackConfig, prevWebpackConfig, minutes,
                 calls, request, origin, rewrites>>
  /\ UNCHANGED NotSite

\* The next document file is read.
ReadDocument ==
  /\ pc = "docs"
  /\ docsRead < Len(DocFiles)
  /\ metadata' = metadata \cup {ParseDocument(DocFiles[docsRead + 1])}
  /\ docsRead' = docsRead + 1
  /\ pc' = IF docsRead' = Len(DocFiles) THEN "content" ELSE "docs"
  /\ UNCHANGED <<year, siteDir, config, prevConfig, configAtLoad, sidebars,
                 sidebarsAtLoad, plugin, webpackConfig, prevWebpackConfig,
                 minutes, calls, request, origin, rewrites>>
  /\ UNCHANGED NotSite

\* config.plugins[0]() is called.
CallCustomPlugin ==
  /\ pc = "content"
  /\ calls < MaxCalls
  /\ plugin' = customPlugin
  /\ calls' = calls + 1
  /\ config' = config
  /\ sidebars' = sidebars
  /\ UNCHANGED <<pc, year, siteDir, prevConfig, configAtLoad, sidebarsAtLoad,
                 docsRead, metadata, webpackConfig, prevWebpackConfig, minutes,
                 request, origin, rewrites>>
  /\ UNCHANGED NotSite

\* configureWebpack() writing its alias rule into the configuration.
CallConfigureWebpack_writing ==
  /\ pc = "content"
  /\ calls < MaxCalls
  /\ plugin # NoValue
  /\ plugin.configureWebpack
  /\ prevWebpackConfig' = webpackConfig
  /\ webpackConfig' = configureWebpack
  /\ calls' = calls + 1
  /\ config' = [config EXCEPT !.plugins = Append(@, "alias")]
  /\ sidebars' = sidebars
  /\ UNCHANGED <<pc, year, siteDir, prevConfig, configAtLoad, sidebarsAtLoad,
                 docsRead, metadata, plugin, minutes, request, origin, rewrites>>
  /\ UNCHANGED NotSite

\* configureWebpack() is called on the object customPlugin() returned.
CallConfigureWebpack ==
  /\ pc = "content"
  /\ calls < MaxCalls
  /\ plugin # NoValue
  /\ plugin.configureWebpack
  /\ prevWebpackConfig' = webpackConfig
  /\ webpackConfig' = configureWebpack
  /\ calls' = calls + 1
  /\ config' = config
  /\ sidebars' = sidebars
  /\ UNCHANGED <<pc, year, siteDir, prevConfig, configAtLoad, sidebarsAtLoad,
                 docsRead, metadata, plugin, minutes, request, origin, rewrites>>
  /\ UNCHANGED NotSite

\* The blog plugin calls the readingTime callback of the configuration on a
\* post of the given length.
CallReadingTime(content) ==
  /\ pc = "content"
  /\ calls < MaxCalls
  /\ config.blog.readingTime
  /\ minutes' = readingTime(content)
  /\ calls' = calls + 1
  /\ config' = config
  /\ sidebars' = sidebars
  /\ UNCHANGED <<pc, year, siteDir, prevConfig, configAtLoad, sidebarsAtLoad,
                 docsRead, metadata, plugin, webpackConfig, prevWebpackConfig,
                 request, origin, rewrites>>
  /\ UNCHANGED NotSite

\* The bundler starts with the webpack configuration of the plugin.
Bundle ==
  /\ pc = "content"
  /\ webpackConfig # NoValue
  /\ pc' = "bundle"
  /\ UNCHANGED <<year, siteDir, config, prevConfig, configAtLoad, sidebars,
                 sidebarsAtLoad, docsRead, metadata, plugin, webpackConfig,
                 prevWebpackConfig, minutes, calls, request, origin, rewrites>>
  /\ UNCHANGED NotSite

\* A module request reaches the resolver.
Resolve(r) ==
  /\ pc = "bundle"
  /\ request = ""
  /\ request' = r
  /\ origin' = r
  /\ rewrites' = 0
  /\ UNCHANGED <<pc, year, siteDir, config, prevConfig, configAtLoad, sidebars,
                 sidebarsAtLoad, docsRead, metadata, plugin, webpackConfig,
                 prevWebpackConfig, minutes, calls>>
  /\ UNCHANGED NotSite

\* resolve.alias: a request that is an alias key is replaced by its target
\* and resolved again.
AliasStep ==
  /\ pc = "bundle"
  /\ request \in DOMAIN webpackConfig.resolve.alias
  /\ rewrites < MaxRewrites
  /\ request' = webpackConfig.resolve.alias[request]
  /\ rewrites' = rewrites + 1
  /\ UNCHANGED <<pc, year, siteDir, config, prevConfig, configAtLoad, sidebars,
                 sidebarsAtLoad, docsRead, metadata, plugin, webpackConfig,
                 prevWebpackConfig, minutes, calls, origin>>
  /\ UNCHANGED NotSite

\* No alias key matches the request: the resolution ends.
Resolved ==
  /\ pc = "bundle"
  /\ request # ""
  /\ request \notin DOMAIN webpackConfig.resolve.alias
  /\ pc' = "done"
  /\ UNCHANGED <<year, siteDir, config, prevConfig, configAtLoad, sidebars,
                 sidebarsAtLoad, docsRead, metadata, plugin, webpackConfig,
                 prevWebpackConfig, minutes, calls, request, origin, rewrites>>
  /\ UNCHANGED NotSite

\* The build is started again: the modules are evaluated anew.
Reload ==
  /\ pc \in {"config", "done"}
  /\ pc' = "idle"
  /\ sidebars' = NoValue
  /\ sidebarsAtLoad' = NoValue
  /\ docsRead' = 0
  /\ metadata' = {}
  /\ plugin' = NoValue
  /\ webpackConfig' = NoValue
  /\ prevWebpackConfig' = NoValue
  /\ minutes' = -1
  /\ calls' = 0
  /\ request' = ""
  /\ origin' = ""
  /\ rewrites' = 0
  /\ UNCHANGED <<year, siteDir, config, prevConfig, configAtLoad>>
  /\ UNCHANGED NotSite

Next ==
  \/ Tick
  \/ MoveSite
  \/ \E f \in ConfigFiles : LoadConfig(f)
  \/ \E f \in SidebarFiles : LoadSidebars(f)
  \/ ReadDocument
  \/ CallCustomPlugin
  \/ CallConfigureWebpack
  \/ \E content \in Contents : CallReadingTime(content)
  \/ Bundle
  \/ \E r \in Requests : Resolve(r)
  \/ AliasStep
  \/ Resolved
  \/ Reload

Spec == Init /\ [][Next]_vars

(***************************************************************************)
(* Routes and links.                                                       *)
(***************************************************************************)
RECURSIVE LeavesOf(_)
\* The leaves of a list of sidebar entries, in declared order.
LeavesOf(items) ==
  IF items = << >> THEN << >>
  ELSE LET e == Head(items)
       IN (IF e.type = "category" THEN LeavesOf(e.items) ELSE <<e>>)
            \o LeavesOf(Tail(items))

RECURSIVE WellFormed(_)
\* Every entry of the list is a leaf with an id or a category with a label
\* and a list of such entries.
WellFormed(items) ==
  \A i \in 1..Len(items) :
    LET e == items[i]
    IN \/ e.type \in {"string", "doc"} /\ e.id # << >> /\ e.items = << >>
       \/ e.type = "category" /\ e.label # "" /\ e.id = << >>
            /\ WellFormed(e.items)

Range(seq) == {seq[i] : i \in 1..Len(seq)}

\* The preset serves the blog unless the configuration says blog: false.
BlogEnabled(c) == c.blog.declared # "false"

\* The document is served at the path under the docs route base path.
Serves(c, m, path) ==
  IF m.named THEN path = c.docs.routeBasePath \o m.permalink
  ELSE /\ IsPrefix(c.docs.routeBasePath, path)
       /\ Len(path) > Len(c.docs.routeBasePath)
       /\ Last(path) = Last(m.id)

IsRoute(c, docs, path) ==
  \/ \E m \in docs : Serves(c, m, path)
  \/ BlogEnabled(c) /\ path = <<"blog">>

\* The 'to' targets of the navbar and of the footer.
ConfigLinks(c) ==
  {i.to : i \in {j \in Range(c.navbar) : j.kind = "to"}}
    \cup UNION {{i.to : i \in {j \in Range(col.items) : j.kind = "to"}} :
                col \in Range(c.footer)}

\* The targets of the relative links of a document: relative to the
\* directory of the page's own route.
DocLinks(c, m) ==
  LET page == c.docs.routeBasePath \o m.permalink
      dir == IF page = << >> THEN << >> ELSE Front(page)
  IN {dir \o l : l \in Range(m.links)}

Built == pc \in {"content", "bundle", "done"}

(***************************************************************************)
(* Properties.                                                             *)
(***************************************************************************)

\* C1: once the documents are read, every leaf of the 'docs' sidebar names
\* a document that exists.
C1_SidebarLeavesResolve ==
  Built =>
    \A leaf \in Range(LeavesOf(sidebars.docs)) :
      \E m \in metadata : HasId(m, leaf.id)

\* C2: once the documents are read, every 'to' target of the navbar and of
\* the footer, and every relative link of a document, is a route of the
\* site.
C2_InternalLinksResolve ==
  Built =>
    /\ \A path \in ConfigLinks(config) : IsRoute(config, metadata, path)
    /\ \A m \in metadata :
         \A path \in DocLinks(config, m) : IsRoute(config, metadata, path)

\* C4: every document file read starts with a front-matter block that has
\* an id or a slug, and a title, and has no such block in its body.
C4_FrontMatterWellFormed ==
  \A m \in metadata :
    /\ m.frontMatter
    /\ "id" \in m.keys \/ "slug" \in m.keys
    /\ "title" \in m.keys
    /\ ~m.block

TwoEvaluations ==
  /\ pc = "config"
  /\ prevConfig # NoValue
  /\ prevConfig.file = config.file

\* C5 as stated: two evaluations of one configuration module are equal.
C5_EvaluationsEqual == TwoEvaluations => config = prevConfig

\* The configuration without the year of footer.copyright and without the
\* directory of the resolved search plugin.
Static(c) ==
  [c EXCEPT !.copyright = <<0, c.copyright[2]>>,
            !.plugins = <<c.plugins[1], <<"", c.plugins[2][2], c.plugins[2][3]>> >>]

\* C5, amended: two evaluations of one configuration module are equal but
\* for the year of footer.copyright, which is the year of the evaluation,
\* and the directory of the resolved search plugin, which is the install
\* directory; the only functions the value carries are customPlugin and,
\* where the blog is declared as an object, readingTime.
C5_EvaluationsEqualButClockAndInstall ==
  /\ TwoEvaluations => Static(config) = Static(prevConfig)
  /\ pc = "config" =>
       /\ config.copyright[1] \in FirstYear..year
       /\ config.plugins[2][1] = siteDir
       /\ config.plugins[1] = "customPlugin"
       /\ config.blog.readingTime => config.blog.declared = "object"

\* Two evaluations of one module that differ.
C5_Witness ==
  /\ TwoEvaluations
  /\ config # prevConfig
  /\ config.copyright[1] # prevConfig.copyright[1]
  /\ config.plugins[2][1] # prevConfig.plugins[2][1]

\* C6: the calls of customPlugin(), configureWebpack() and readingTime
\* leave the configuration and the sidebars as they were loaded.
C6_CallbacksLeaveConfigAndSidebars ==
  /\ pc # "idle" => config = configAtLoad
  /\ pc \notin {"idle", "config"} => sidebars = sidebarsAtLoad

\* All three callbacks have been called in one run.
C6_Witness ==
  /\ calls = 3
  /\ plugin # NoValue
  /\ webpackConfig # NoValue
  /\ minutes >= 0

OverviewPaths == {"@site/docs/overview.md", "@site/docs/docs/overview.md"}

\* C7: configureWebpack() returns, at every call, the alias map that sends
\* the two overview paths to @site/docs/index.md; no target is a key, and a
\* resolution is over after at most one rewrite, at index.md for the two
\* overview paths.
C7_AliasMapsOverviewToIndex ==
  /\ webpackConfig # NoValue =>
       /\ DOMAIN webpackConfig.resolve.alias = OverviewPaths
       /\ \A k \in OverviewPaths :
            /\ webpackConfig.resolve.alias[k] = "@site/docs/index.md"
            /\ webpackConfig.resolve.alias[k] \notin DOMAIN webpackConfig.resolve.alias
  /\ prevWebpackConfig # NoValue => prevWebpackConfig = webpackConfig
  /\ rewrites <= 1
  /\ pc = "done" =>
       /\ request \notin OverviewPaths
       /\ origin \in OverviewPaths => request = "@site/docs/index.md" /\ rewrites = 1
       /\ origin \notin OverviewPaths => request = origin /\ rewrites = 0

\* A request for @site/docs/docs/overview.md has been resolved, after two
\* calls of configureWebpack().
C7_Witness ==
  /\ pc = "done"
  /\ origin = "@site/docs/docs/overview.md"
  /\ request = "@site/docs/index.md"
  /\ prevWebpackConfig # NoValue

\* The leaves of entry i stand in the navigation order after those of the
\* entries declared before it, in the order of their declaration.
InDeclaredOrder(items) ==
  \A i \in 1..Len(items) :
    LET before == Len(LeavesOf(SubSeq(items, 1, i - 1)))
        own == IF items[i].type = "category" THEN items[i].items ELSE <<items[i]>>
    IN SubSeq(LeavesOf(items), before + 1, before + Len(own)) = own

\* C8: every entry of the loaded sidebar is a leaf that names one document
\* or a category with a label and a list of such entries, and the leaves in
\* navigation order are the declared leaves in declared order.
C8_SidebarEntriesAreLeavesOrCategories ==
  sidebars # NoValue =>
    /\ WellFormed(sidebars.docs)
    /\ InDeclaredOrder(sidebars.docs)

\* The sidebar with two categories, of five and of two leaves, is loaded.
C8_Witness ==
  /\ sidebars # NoValue
  /\ Len(sidebars.docs) = 4
  /\ sidebars.docs[3].type = "category"
  /\ Len(sidebars.docs[3].items) = 5
  /\ Len(LeavesOf(sidebars.docs)) = 9

(***************************************************************************)
(* shared-flags.ts: SharedFeatureFlags and useMicroFrontendFlag.  Micro-   *)
(* frontend m holds the object its getInstance() call returned in          *)
(* sharedFlags[m] and mounts one useMicroFrontendFlag component,           *)
(* consumers[m].  A component is "rendered" once useState has taken its    *)
(* initial value and "subscribed" once its effect has added the listener.  *)
(***************************************************************************)

\* this.flags = flags, without the spread of this.flags.
Spread_replacing(old, flags) == flags

\* { ...this.flags, ...flags }
Spread(old, flags) ==
  [n \in DOMAIN old \cup DOMAIN flags |->
     IF n \in DOMAIN flags THEN flags[n] ELSE old[n]]

\* getFlag(name) { return this.flags[name] || false }
getFlag(flags, name) == IF name \in DOMAIN flags THEN flags[name] ELSE FALSE

\* handleFlagsUpdate: setIsEnabled(event.detail[flagName] || false)
handleFlagsUpdate(consumer, event) ==
  [consumer EXCEPT
     !.isEnabled = IF consumer.flagName \in DOMAIN event
                     THEN event[consumer.flagName] ELSE FALSE]

\* const sharedFlags = SharedFeatureFlags.getInstance()
GetInstance(m) ==
  /\ sharedFlags[m] = 0
  /\ IF instance = 0
       THEN /\ objects' = Append(objects, NoFlags)
            /\ instance' = Len(objects) + 1
       ELSE UNCHANGED <<objects, instance>>
  /\ sharedFlags' = [sharedFlags EXCEPT ![m] = instance']
  /\ UNCHANGED <<consumers, dispatched, detail, setCalls, lastFlags>>
  /\ UNCHANGED NotShared

\* sharedFlags.setFlags(flags): the merge, then the event, whose listeners
\* run before dispatchEvent returns.
SetFlags(m, flags) ==
  /\ sharedFlags[m] # 0
  /\ setCalls < MaxSetFlags
  /\ LET merged == Spread(objects[sharedFlags[m]], flags)
     IN /\ objects' = [objects EXCEPT ![sharedFlags[m]] = merged]
        /\ detail' = merged
        /\ consumers' =
             [c \in MicroFrontends |->
                IF consumers[c].phase = "subscribed"
                  THEN handleFlagsUpdate(consumers[c], merged)
                  ELSE consumers[c]]
  /\ dispatched' = dispatched + 1
  /\ setCalls' = setCalls + 1
  /\ lastFlags' = flags
  /\ UNCHANGED <<instance, sharedFlags>>
  /\ UNCHANGED NotShared

\* The component renders for the first time:
\* useState(sharedFlags.getFlag(flagName)).
Render(c, flagName) ==
  /\ consumers[c].phase = "unmounted"
  /\ sharedFlags[c] # 0
  /\ consumers' =
       [consumers EXCEPT
          ![c] = [phase |-> "rendered", flagName |-> flagName,
                  isEnabled |-> getFlag(objects[sharedFlags[c]], flagName)]]
  /\ UNCHANGED <<instance, objects, sharedFlags, dispatched, detail, setCalls,
                 lastFlags>>
  /\ UNCHANGED NotShared

\* The effect of the component runs:
\* window.addEventListener("flagsUpdated", handleFlagsUpdate).
Effect(c) ==
  /\ consumers[c].phase = "rendered"
  /\ consumers' = [consumers EXCEPT ![c].phase = "subscribed"]
  /\ UNCHANGED <<instance, objects, sharedFlags, dispatched, detail, setCalls,
                 lastFlags>>
  /\ UNCHANGED NotShared

\* The component unmounts: the cleanup removes the listener.
Unmount(c) ==
  /\ consumers[c].phase \in {"rendered", "subscribed"}
  /\ consumers' = [consumers EXCEPT ![c] = Unmounted]
  /\ UNCHANGED <<instance, objects, sharedFlags, dispatched, detail, setCalls,
                 lastFlags>>
  /\ UNCHANGED NotShared

NextShared ==
  \/ \E m \in MicroFrontends : GetInstance(m)
  \/ \E m \in MicroFrontends : \E flags \in FlagRecords : SetFlags(m, flags)
  \/ \E c \in MicroFrontends : \E flagName \in FlagNames : Render(c, flagName)
  \/ \E c \in MicroFrontends : Effect(c)
  \/ \E c \in MicroFrontends : Unmount(c)

SpecShared == Init /\ [][NextShared]_vars

\* C11: every mounted useMicroFrontendFlag(flagName) component holds in
\* isEnabled what sharedFlags.getFlag(flagName) returns.
C11_ConsumersAgree ==
  \A c \in MicroFrontends :
    consumers[c].phase = "subscribed" =>
      consumers[c].isEnabled =
        getFlag(objects[sharedFlags[c]], consumers[c].flagName)

Current == objects[instance]

\* C17: getInstance() returns one object to every caller; after
\* setFlags(f), getFlag(n) is f[n] for n in f and what it was for n not in
\* f; getFlag(n) is false for a name that is not set; every setFlags
\* dispatches one event, whose detail is the merged record.
C17_SingletonMerges ==
  /\ [](/\ Len(objects) <= 1
        /\ \A m \in MicroFrontends : sharedFlags[m] # 0 => sharedFlags[m] = instance
        /\ dispatched = setCalls
        /\ setCalls > 0 =>
             /\ detail = Current
             /\ \A n \in DOMAIN lastFlags : getFlag(Current, n) = lastFlags[n]
        /\ instance # 0 =>
             \A n \in FlagNames \ DOMAIN Current : getFlag(Current, n) = FALSE)
  /\ [][setCalls' = setCalls + 1 =>
          \A n \in FlagNames \ DOMAIN lastFlags' :
            getFlag(objects'[instance'], n) = getFlag(Current, n)]_vars

\* Two setFlags calls, the second on another name than the first, made
\* through the objects of two micro-frontends.
C17_Witness ==
  /\ setCalls = 2
  /\ \A m \in MicroFrontends : sharedFlags[m] # 0
  /\ DOMAIN Current = FlagNames
  /\ DOMAIN lastFlags # FlagNames
  /\ DOMAIN lastFlags # {}

(***************************************************************************)
(* The React components, the Vue router guard and the Angular guard.       *)
(***************************************************************************)
FallbackPaths == {"undefined", "/coming-soon"}
FallbackComponents == {"undefined", "<ComingSoon />"}
ProtectedRouteProps ==
  [fallbackPath : FallbackPaths, fallbackComponent : FallbackComponents]

\* A parameter with a default: fallbackPath = "/", redirectTo = "/".
Default(value, default) == IF value = "undefined" THEN default ELSE value

\* The route that renders its children whatever the flag.
ProtectedRoute_open(props, enabled) == <<"children">>

\* ProtectedRoute of the advanced guide.
ProtectedRoute(props, enabled) ==
  IF ~Truthy(enabled)
    THEN IF Truthy(props.fallbackComponent)
           THEN <<"fallbackComponent", props.fallbackComponent>>
           ELSE <<"Navigate", Default(props.fallbackPath, "/")>>
    ELSE <<"children">>

\* ProtectedRoute of docs/client/react.md, which destructures children,
\* flagKey and fallbackPath only.
ProtectedRoute_react_md(props, enabled) ==
  IF Truthy(enabled)
    THEN <<"children">>
    ELSE <<"Navigate", Default(props.fallbackPath, "/")>>

\* The provider's state changes; the components under it render again.
Provide(loading, value) ==
  /\ <<loading, value>> # <<isLoading, isEnabled>>
  /\ isLoading' = loading
  /\ isEnabled' = value
  /\ element' = NoElement
  /\ UNCHANGED <<user, navigation, activation>>
  /\ UNCHANGED NotUI

\* The user signs in or out.
SignIn(u) ==
  /\ u # user
  /\ user' = u
  /\ element' = NoElement
  /\ UNCHANGED <<isLoading, isEnabled, navigation, activation>>
  /\ UNCHANGED NotUI

RenderProtectedRoute(source, props) ==
  /\ element' =
       [component |-> "ProtectedRoute", source |-> source, props |-> props,
        output |-> IF source = "part_004"
                     THEN ProtectedRoute(props, isEnabled)
                     ELSE ProtectedRoute_react_md(props, isEnabled)]
  /\ UNCHANGED <<isLoading, isEnabled, user, navigation, activation>>
  /\ UNCHANGED NotUI

FeatureWrapperProps ==
  [fallback : {"undefined", "<OldFeature />"},
   loading : {"undefined", "<Spinner />"}]

\* The wrapper that does not look at isLoading.
FeatureWrapper_unguarded(props, loading, enabled) ==
  IF Truthy(enabled)
    THEN <<"children">>
    ELSE <<"fallback", Default(props.fallback, "null")>>

\* FeatureWrapper: fallback = null, loading = null by default.
FeatureWrapper(props, loading, enabled) ==
  IF loading
    THEN <<"loading", Default(props.loading, "null")>>
    ELSE IF Truthy(enabled)
           THEN <<"children">>
           ELSE <<"fallback", Default(props.fallback, "null")>>

RenderFeatureWrapper(props) ==
  /\ element' =
       [component |-> "FeatureWrapper", props |-> props,
        output |-> FeatureWrapper(props, isLoading, isEnabled)]
  /\ UNCHANGED <<isLoading, isEnabled, user, navigation, activation>>
  /\ UNCHANGED NotUI

\* ProtectedAdminRoute: user.isAdmin of no user is a TypeError.
ProtectedAdminRoute(u, showAdminFeatures) ==
  IF ~u.exists
    THEN <<"TypeError">>
    ELSE IF ~Truthy(u.isAdmin) \/ ~Truthy(showAdminFeatures)
           THEN <<"Navigate", "/unauthorized">>
           ELSE <<"AdminPanel">>

RenderProtectedAdminRoute ==
  /\ element' =
       [component |-> "ProtectedAdminRoute",
        output |-> ProtectedAdminRoute(user, isEnabled)]
  /\ UNCHANGED <<isLoading, isEnabled, user, navigation, activation>>
  /\ UNCHANGED NotUI

RedirectTos == {"undefined", "/coming-soon", "/unauthorized"}

\* to.matched[0]?.instances?.default?.$parent?.$root: the root instance, or
\* undefined where a link of the chain is missing.
Apps == {"undefined", "app"}

\* The function featureFlagGuard(flagName, redirectTo) returns, called by
\* the router: what it passes to next.
featureFlagGuard(redirectTo, app, value) ==
  LET enabled == IF app = "undefined" THEN "undefined" ELSE value
  IN IF enabled # "false"
       THEN <<"next">>
       ELSE <<"next", Default(redirectTo, "/")>>

BeforeEnter(redirectTo, app) ==
  /\ navigation' =
       [redirectTo |-> redirectTo, app |-> app, flag |-> isEnabled,
        next |-> featureFlagGuard(redirectTo, app, isEnabled)]
  /\ UNCHANGED <<isLoading, isEnabled, user, element, activation>>
  /\ UNCHANGED NotUI

RequiredRoles == {"undefined", "admin"}

\* The guard that asks the flag only.
canActivate_flagOnly(u, requiredRole, flagEnabled) ==
  IF Truthy(flagEnabled) THEN "true" ELSE flagEnabled

\* What canActivate resolves to: flagEnabled && hasPermission, with
\* hasPermission = user && user.roles.includes(requiredRole).
canActivate(u, requiredRole, flagEnabled) ==
  LET hasPermission ==
        IF ~u.exists THEN "null"
        ELSE IF requiredRole \in u.roles THEN "true" ELSE "false"
  IN IF Truthy(flagEnabled) THEN hasPermission ELSE flagEnabled

\* canActivate up to its await: the route data and the user are read.
CanActivate(requiredRole) ==
  /\ activation.pc # "awaiting"
  /\ activation' =
       [pc |-> "awaiting", requiredRole |-> requiredRole, user |-> user]
  /\ UNCHANGED <<isLoading, isEnabled, user, element, navigation>>
  /\ UNCHANGED NotUI

\* isFeatureEnabled(flagName) settles and canActivate returns.
CanActivateReturn ==
  /\ activation.pc = "awaiting"
  /\ activation' =
       [pc |-> "done", requiredRole |-> activation.requiredRole,
        user |-> activation.user, flagEnabled |-> isEnabled,
        result |-> canActivate(activation.user, activation.requiredRole,
                               isEnabled)]
  /\ UNCHANGED <<isLoading, isEnabled, user, element, navigation>>
  /\ UNCHANGED NotUI

NextUI ==
  \/ \E loading \in BOOLEAN : \E value \in FlagValues : Provide(loading, value)
  \/ \E u \in Users : SignIn(u)
  \/ \E source \in {"part_004", "react.md"} :
       \E props \in ProtectedRouteProps : RenderProtectedRoute(source, props)
  \/ \E props \in FeatureWrapperProps : RenderFeatureWrapper(props)
  \/ RenderProtectedAdminRoute
  \/ \E requiredRole \in RequiredRoles : CanActivate(requiredRole)
  \/ CanActivateReturn

SpecUI == Init /\ [][NextUI]_vars

\* The Vue application: the plugin's state changes and the router calls the
\* guard.
NextVue ==
  \/ \E loading \in BOOLEAN : \E value \in FlagValues : Provide(loading, value)
  \/ \E redirectTo \in RedirectTos : \E app \in Apps :
       BeforeEnter(redirectTo, app)

SpecVue == Init /\ [][NextVue]_vars

\* C13: featureFlagGuard lets the navigation enter the route (next with no
\* argument) only when the flag is enabled, and sends it to redirectTo
\* ("/" by default) in every other case.
C13_GuardRedirectsUnlessEnabled ==
  navigation # NoNavigation =>
    IF navigation.app = "app" /\ navigation.flag = "true"
      THEN navigation.next = <<"next">>
      ELSE navigation.next =
             <<"next", IF navigation.redirectTo = "undefined" THEN "/"
                       ELSE navigation.redirectTo>>

\* C14: canActivate returns true only when the flag is enabled and the user
\* it read exists and has the required role, and nothing truthy otherwise;
\* ProtectedAdminRoute renders AdminPanel only when user.isAdmin and the
\* flag are both true, and redirects to /unauthorized or throws otherwise.
C14_FlagAndPermission ==
  /\ activation.pc = "done" =>
       /\ activation.result = "true" <=>
            /\ activation.flagEnabled = "true"
            /\ activation.user.exists
            /\ activation.requiredRole \in activation.user.roles
       /\ activation.result \in {"true", "false", "null", "undefined"}
  /\ element.component = "ProtectedAdminRoute" =>
       /\ element.output = <<"AdminPanel">> <=>
            /\ user.exists
            /\ user.isAdmin = "true"
            /\ isEnabled = "true"
       /\ element.output \in
            {<<"AdminPanel">>, <<"Navigate", "/unauthorized">>, <<"TypeError">>}

\* The flag is enabled and nobody is signed in: canActivate returned null,
\* and an administrator whose flag is off was sent to /unauthorized.
C14_Witness ==
  /\ activation.pc = "done"
  /\ activation.flagEnabled = "true"
  /\ ~activation.user.exists
  /\ activation.result = "null"
  /\ element.component = "ProtectedAdminRoute"
  /\ user.exists /\ user.isAdmin = "true" /\ isEnabled = "false"
  /\ element.output = <<"Navigate", "/unauthorized">>

FallbackKeys == {"undefined", "", "key-2"}

\* How a call of a FlagpoleClient settles: it resolves to a boolean or
\* rejects with an error, whose status is a number or is missing.
Settlements ==
  [kind : {"resolve"}, value : {"true", "false"}] \cup
  [kind : {"reject"}, value : {"401", "403", "500", "undefined"}]

Pending == [kind |-> "pending", value |-> ""]
NotCalled == [kind |-> "none", value |-> ""]

\* The catch block that falls back on every error.
Catch_any(client, status) ==
  IF client = "client" THEN "fallback" ELSE "throw"

\* catch (error): if (this.fallbackClient && error.status === 401)
Catch(client, status) ==
  IF client = "client" /\ status = "401" THEN "fallback" ELSE "throw"

\* new SecureFlagpoleClient(primaryKey, fallbackKey)
Construct(fallbackKey) ==
  /\ fallbackClient = "unconstructed"
  /\ fallbackClient' = IF Truthy(fallbackKey) THEN "client" ELSE "null"
  /\ UNCHANGED <<rotation, warned>>
  /\ UNCHANGED NotRotation

\* isFeatureEnabled(flagName, context) up to its first await.
IsFeatureEnabled(flagName) ==
  /\ fallbackClient # "unconstructed"
  /\ rotation.pc \in {"idle", "returned", "thrown"}
  /\ (IF rotation.pc = "idle" THEN 0 ELSE rotation.call) < MaxRotationCalls
  /\ rotation' =
       [pc |-> "primary",
        call |-> IF rotation.pc = "idle" THEN 1 ELSE rotation.call + 1,
        flagName |-> flagName, primary |-> Pending, fallback |-> NotCalled,
        result |-> Pending]
  /\ UNCHANGED <<fallbackClient, warned>>
  /\ UNCHANGED NotRotation

\* The call of the primary client settles.
PrimarySettles(settlement) ==
  /\ rotation.pc = "primary"
  /\ IF settlement.kind = "resolve"
       THEN /\ rotation' = [rotation EXCEPT !.pc = "returned",
                                            !.primary = settlement,
                                            !.result = settlement]
            /\ UNCHANGED warned
       ELSE IF Catch(fallbackClient, settlement.value) = "fallback"
              THEN /\ warned' = warned + 1
                   /\ rotation' = [rotation EXCEPT !.pc = "fallback",
                                                   !.primary = settlement,
                                                   !.fallback = Pending]
              ELSE /\ rotation' = [rotation EXCEPT !.pc = "thrown",
                                                   !.primary = settlement,
                                                   !.result = settlement]
                   /\ UNCHANGED warned
  /\ UNCHANGED fallbackClient
  /\ UNCHANGED NotRotation

\* The call of the fallback client settles.
FallbackSettles(settlement) ==
  /\ rotation.pc = "fallback"
  /\ rotation' =
       [rotation EXCEPT
          !.pc = IF settlement.kind = "resolve" THEN "returned" ELSE "thrown",
          !.fallback = settlement,
          !.result = settlement]
  /\ UNCHANGED <<fallbackClient, warned>>
  /\ UNCHANGED NotRotation

NextRotation ==
  \/ \E fallbackKey \in FallbackKeys : Construct(fallbackKey)
  \/ \E flagName \in FlagNames : IsFeatureEnabled(flagName)
  \/ \E settlement \in Settlements : PrimarySettles(settlement)
  \/ \E settlement \in Settlements : FallbackSettles(settlement)

SpecRotation == Init /\ [][NextRotation]_vars

\* C15: the primary client's result is returned whenever its call succeeds;
\* the fallback client is called only when the primary call failed with
\* status 401 and a fallback client exists, and is called then; every other
\* primary failure and every failure of the fallback call is thrown to the
\* caller.
C15_KeyRotation ==
  rotation.pc # "idle" =>
    /\ rotation.primary.kind = "resolve" =>
         /\ rotation.pc = "returned"
         /\ rotation.result = rotation.primary
         /\ rotation.fallback = NotCalled
    /\ rotation.fallback # NotCalled <=>
         /\ rotation.primary = [kind |-> "reject", value |-> "401"]
         /\ fallbackClient = "client"
    /\ rotation.primary.kind = "reject" /\ rotation.fallback = NotCalled =>
         /\ rotation.pc = "thrown"
         /\ rotation.result = rotation.primary
    /\ rotation.fallback.kind \in {"resolve", "reject"} =>
         /\ rotation.result = rotation.fallback
         /\ rotation.pc = IF rotation.fallback.kind = "reject"
                            THEN "thrown" ELSE "returned"
    /\ rotation.pc = "returned" => rotation.result.kind = "resolve"
    /\ rotation.pc = "thrown" => rotation.result.kind = "reject"

\* The primary key was rejected with 401 and the fallback call failed too:
\* the caller got the error of the fallback call.
C15_Witness ==
  /\ rotation.pc = "thrown"
  /\ rotation.primary = [kind |-> "reject", value |-> "401"]
  /\ rotation.fallback = [kind |-> "reject", value |-> "500"]
  /\ rotation.result = [kind |-> "reject", value |-> "500"]
  /\ warned > 0

(***************************************************************************)
(* LiveConfigPanel: the update notification and its timer.  Time is        *)
(* counted in seconds; a timer holds the seconds it still has to wait.     *)
(***************************************************************************)
\* setTimeout(..., 3000)
delay == 3

\* The cleanup that clears nothing.
clearTimeout_nothing(pending, id) == pending

\* clearTimeout(timer)
clearTimeout(pending, id) == {t \in pending : t.id # id}

\* The panel renders for the first time; its effects are scheduled.
MountPanel ==
  /\ mounted = "no"
  /\ mounted' = "yes"
  /\ effectPending' = TRUE
  /\ UNCHANGED <<flagsVersion, showUpdateNotification, timers, timer, timersSet>>
  /\ UNCHANGED NotPanel

\* useFeatureFlags() hands the panel a new flags value; the panel renders
\* again and the [flags] effect is scheduled.
FlagsUpdate ==
  /\ mounted = "yes"
  /\ flagsVersion < MaxUpdates
  /\ flagsVersion' = flagsVersion + 1
  /\ effectPending' = TRUE
  /\ UNCHANGED <<mounted, showUpdateNotification, timers, timer, timersSet>>
  /\ UNCHANGED NotPanel

\* The [flags] effect runs: the cleanup of its previous run, then
\* setShowUpdateNotification(true) and setTimeout.
RunEffect ==
  /\ mounted = "yes"
  /\ effectPending
  /\ effectPending' = FALSE
  /\ showUpdateNotification' = TRUE
  /\ timersSet' = timersSet + 1
  /\ timer' = timersSet + 1
  /\ timers' =
       (IF timer = 0 THEN timers ELSE clearTimeout(timers, timer))
         \cup {[id |-> timersSet + 1, remaining |-> delay]}
  /\ UNCHANGED <<mounted, flagsVersion>>
  /\ UNCHANGED NotPanel

\* A second passes.
TickSecond ==
  /\ \E t \in timers : t.remaining > 0
  /\ timers' =
       {[id |-> t.id,
         remaining |-> IF t.remaining > 0 THEN t.remaining - 1 ELSE 0] :
          t \in timers}
  /\ UNCHANGED <<mounted, flagsVersion, effectPending, showUpdateNotification,
                 timer, timersSet>>
  /\ UNCHANGED NotPanel

\* A timer whose delay is over runs its callback:
\* setShowUpdateNotification(false).
Fire ==
  /\ \E t \in timers :
       /\ t.remaining = 0
       /\ timers' = timers \ {t}
  /\ showUpdateNotification' = FALSE
  /\ UNCHANGED <<mounted, flagsVersion, effectPending, timer, timersSet>>
  /\ UNCHANGED NotPanel

\* The panel unmounts: the cleanup of the latest effect run.
UnmountPanel ==
  /\ mounted = "yes"
  /\ mounted' = "gone"
  /\ effectPending' = FALSE
  /\ showUpdateNotification' = FALSE
  /\ timers' = IF timer = 0 THEN timers ELSE clearTimeout(timers, timer)
  /\ UNCHANGED <<flagsVersion, timer, timersSet>>
  /\ UNCHANGED NotPanel

NextPanel ==
  \/ MountPanel
  \/ FlagsUpdate
  \/ RunEffect
  \/ TickSecond
  \/ Fire
  \/ UnmountPanel

\* Scheduled effects run, time passes and due timers fire.
SpecPanel ==
  /\ Init
  /\ [][NextPanel]_vars
  /\ WF_vars(RunEffect)
  /\ WF_vars(TickSecond)
  /\ WF_vars(Fire)

\* C16: the notification is shown when the effect of a flags update runs and
\* is hidden by the timer of the most recent effect run, when the 3 seconds
\* of that timer are over; a new run clears the timer of the run before it,
\* so at most one timer is pending; and the notification is eventually
\* hidden for good once updates stop.
C16_NotificationHides ==
  /\ [](/\ Cardinality(timers) <= 1
        /\ \A t \in timers : t.id = timer /\ t.remaining \in 0 .. delay
        /\ showUpdateNotification /\ ~effectPending =>
             \E t \in timers : t.id = timer)
  /\ [][/\ timersSet' # timersSet =>
             /\ showUpdateNotification'
             /\ timers' = {[id |-> timer', remaining |-> delay]}
        /\ showUpdateNotification /\ ~showUpdateNotification'
             /\ mounted' = "yes" =>
               [id |-> timer, remaining |-> 0] \in timers]_vars
  /\ <>[](~showUpdateNotification)

\* Two updates after the mount, the second before the timer of the first
\* was over, and the notification hidden in the end by the third timer.
C16_Witness ==
  /\ mounted = "yes"
  /\ flagsVersion = 2
  /\ timersSet = 3
  /\ timers = {}
  /\ ~showUpdateNotification

(***************************************************************************)
(* The options of the search plugin against the preset.                    *)
(***************************************************************************)
\* The value the configuration gives the option, "absent" where it gives
\* none.
Option(c, name) ==
  IF \E o \in c.searchOptions : o[1] = name
    THEN (CHOOSE o \in c.searchOptions : o[1] = name)[2]
    ELSE "absent"

\* A route base path as segments: "/" is << >>, "/docs" is <<"docs">>.
PathOf(s) ==
  CASE s = "/" -> << >>
    [] s = "/docs" -> <<"docs">>
    [] s = "/blog" -> <<"blog">>
    [] OTHER -> <<s>>

\* The routes the options offer to the search index: the docs routes with
\* indexDocs, the blog routes with indexBlog.
Indexed(c, docs, path) ==
  \/ /\ Option(c, "indexDocs") = "true"
     /\ \E m \in docs : Serves(c, m, path)
  \/ /\ Option(c, "indexBlog") = "true"
     /\ Option(c, "blogRouteBasePath") # "false"
     /\ IsPrefix(PathOf(Option(c, "blogRouteBasePath")), path)
     /\ path # << >>

\* C19: in a configuration with blog: false, indexBlog, indexPages and
\* blogRouteBasePath are false, the blog route is neither served nor offered
\* to the search index, and no navbar or footer item links to it.
C19_BlogOffSearchDocsOnly ==
  (config # NoValue /\ config.blog.declared = "false") =>
    /\ Option(config, "indexBlog") = "false"
    /\ Option(config, "indexPages") = "false"
    /\ Option(config, "blogRouteBasePath") = "false"
    /\ \A l \in ConfigLinks(config) : l = << >> \/ l[1] # "blog"
    /\ Built =>
         /\ ~IsRoute(config, metadata, <<"blog">>)
         /\ ~Indexed(config, metadata, <<"blog">>)
         /\ \A l \in ConfigLinks(config) :
              Indexed(config, metadata, l) =>
                \E m \in metadata : Serves(config, m, l)

\* docusaurus.config.ts built: its footer links are offered to the index as
\* docs routes.
C19_Witness ==
  /\ Built
  /\ config.file = "docusaurus.config.ts"
  /\ config.blog.declared = "false"
  /\ \E l \in ConfigLinks(config) : Indexed(config, metadata, l)

\* C20: a configuration that sets the search plugin's docsRouteBasePath
\* sets it to the routeBasePath of the docs preset.
C20_BasePathsAgree ==
  (config # NoValue /\ Option(config, "docsRouteBasePath") # "absent") =>
    PathOf(Option(config, "docsRouteBasePath")) = config.docs.routeBasePath

(***************************************************************************)
(* The documents against the sidebar.                                      *)
(***************************************************************************)
\* C21: once the documents are read, every document is a leaf of the
\* 'docs' sidebar of the sidebars module that was loaded.
C21_DocumentsAreLeaves ==
  Built =>
    \A m \in metadata :
      \E leaf \in Range(LeavesOf(sidebars.docs)) : HasId(m, leaf.id)

(***************************************************************************)
(* ABTestComponent.                                                        *)
(***************************************************************************)
\* experimentFlag?.conditions?.variant || "control"
variant(flag) == IF Truthy(flag.variant) THEN flag.variant ELSE "control"

\* switch (variant)
ABTestComponent(flag) ==
  CASE variant(flag) = "variantA" -> <<"CheckoutVariantA">>
    [] variant(flag) = "variantB" -> <<"CheckoutVariantB">>
    [] OTHER -> <<"CheckoutControl">>

\* [variant, percentage, experimentFlag?.isEnabled]
Deps(flag) == <<variant(flag), flag.percentage, flag.isEnabled>>

\* The provider hands the component another flag record, once the effects
\* of the render before are over; the component is to render again.
SetExperiment(flag) ==
  /\ ~exposureDue
  /\ flag # experimentFlag
  /\ experimentFlag' = flag
  /\ checkout' = NoCheckout
  /\ UNCHANGED <<effectDeps, exposureDue, exposures, lastExposure>>
  /\ UNCHANGED NotAB

\* ABTestComponent renders; the component of the advanced guide schedules
\* its effect where a dependency changed, the one of react.md has none.
RenderABTest(source) ==
  /\ ~exposureDue
  /\ checkout.source \in {"none", source}
  /\ checkout' = [source |-> source, output |-> ABTestComponent(experimentFlag)]
  /\ exposureDue' =
       (source = "part_004" /\ Deps(experimentFlag) # effectDeps)
  /\ UNCHANGED <<experimentFlag, effectDeps, exposures, lastExposure>>
  /\ UNCHANGED NotAB

\* The effect runs: if (experimentFlag?.isEnabled) analytics.track(...).
RunExposureEffect ==
  /\ exposureDue
  /\ exposures < MaxExposures
  /\ exposureDue' = FALSE
  /\ effectDeps' = Deps(experimentFlag)
  /\ IF Truthy(experimentFlag.isEnabled)
       THEN /\ exposures' = exposures + 1
            /\ lastExposure' = experimentFlag
       ELSE UNCHANGED <<exposures, lastExposure>>
  /\ UNCHANGED <<experimentFlag, checkout>>
  /\ UNCHANGED NotAB

\* The component unmounts.
UnmountABTest ==
  /\ checkout # NoCheckout
  /\ checkout' = NoCheckout
  /\ effectDeps' = NoDeps
  /\ exposureDue' = FALSE
  /\ UNCHANGED <<experimentFlag, exposures, lastExposure>>
  /\ UNCHANGED NotAB

NextAB ==
  \/ \E flag \in ExperimentFlags : SetExperiment(flag)
  \/ \E source \in {"part_004", "react.md"} : RenderABTest(source)
  \/ RunExposureEffect
  \/ UnmountABTest

SpecAB == Init /\ [][NextAB]_vars

\* C22: ABTestComponent renders CheckoutVariantA or CheckoutVariantB only
\* when the checkoutExperiment flag exists and is enabled, and
\* CheckoutControl in every other case; every tracked exposure was of an
\* enabled flag.
C22_VariantOnlyWhileEnabled ==
  /\ checkout # NoCheckout =>
       /\ checkout.output # <<"CheckoutControl">> =>
            experimentFlag.exists /\ experimentFlag.isEnabled = "true"
       /\ (\/ ~experimentFlag.exists
           \/ experimentFlag.isEnabled # "true"
           \/ experimentFlag.variant \notin {"variantA", "variantB"}) =>
            checkout.output = <<"CheckoutControl">>
  /\ exposures > 0 => lastExposure.isEnabled = "true"

====
